---- MODULE Spec2Model ----
(***************************************************************************)
(* SortedSet (sorted_set.py): a sorted, duplicate-free collection that is  *)
(* both a Sequence and a Set.  A client holds two instances, s and t, and  *)
(* calls the public operations on them; an operation that builds a new     *)
(* instance hands it back in ret, and the client may keep it in place of s *)
(* or t.                                                                   *)
(***************************************************************************)
EXTENDS Integers, Sequences, FiniteSets, TLC

VARIABLES
    heap,   \* heap[o] is the _items list of the instance the client calls o
    ret     \* the last call: operation, receiver, argument and outcome

vars == <<heap, ret>>

(***************************************************************************)
(* Bounds of the model.                                                    *)
(***************************************************************************)
MaxVal == 3     \* elements are 1..MaxVal
MaxLen == 3     \* plain input sequences hold at most MaxLen elements

Values  == 1..MaxVal
Probes  == 0..(MaxVal + 1)            \* items looked up: below, inside, above
Indices == (0 - MaxVal - 1)..(MaxVal + 1)   \* positions and slice bounds
Counts  == (0 - 1)..2                 \* repetition counts: negative, zero, positive
Lists   == UNION {[1..n -> Values] : n \in 0..MaxLen}
Names   == {"s", "t"}

(***************************************************************************)
(* Python values that cross the interface, with every field always         *)
(* present so that any two of them can be compared.                        *)
(***************************************************************************)
\* arguments
NoArg         == [type |-> "none",      id |-> "", items |-> <<>>, i |-> 0, j |-> 0, hasi |-> FALSE, hasj |-> FALSE]
ObjArg(o)     == [type |-> "SortedSet", id |-> o,  items |-> <<>>, i |-> 0, j |-> 0, hasi |-> FALSE, hasj |-> FALSE]
ListArg(xs)   == [type |-> "list",      id |-> "", items |-> xs,   i |-> 0, j |-> 0, hasi |-> FALSE, hasj |-> FALSE]
IntArg(n)     == [type |-> "int",       id |-> "", items |-> <<>>, i |-> n, j |-> 0, hasi |-> TRUE,  hasj |-> FALSE]
SliceArg(a, b) == [type |-> "slice",    id |-> "", items |-> <<>>, i |-> a.v, j |-> b.v, hasi |-> a.some, hasj |-> b.some]

\* an optional slice bound: None or an integer
None    == [some |-> FALSE, v |-> 0]
Some(n) == [some |-> TRUE,  v |-> n]
Bounds  == {None} \cup {Some(n) : n \in Indices}

\* outcomes
Out(k)        == [kind |-> k, b |-> FALSE, n |-> 0, items |-> <<>>, id |-> "", str |-> ""]
RetBool(v)       == [Out("bool") EXCEPT !.b = v]
RetInt(v)        == [Out("int") EXCEPT !.n = v]
RetList(xs)      == [Out("list") EXCEPT !.items = xs]
RetStr(x)        == [Out("str") EXCEPT !.str = x]
RetNew(xs)       == [Out("new") EXCEPT !.items = xs]      \* a new SortedSet instance
RetRef(o)        == [Out("ref") EXCEPT !.id = o]          \* the existing instance o
NotImplemented == Out("NotImplemented")
Raise(e)      == Out(e)
Errors        == {"ValueError", "IndexError", "AttributeError", "AssertionError", "TypeError"}
IsRaise(r)    == r.kind \in Errors

(***************************************************************************)
(* Python built-ins the class is written with.                             *)
(***************************************************************************)
\* set(items): the distinct elements
set(xs) == {xs[k] : k \in DOMAIN xs}

Max(S) == CHOOSE x \in S : \A y \in S : y <= x

\* iterating a built-in set: every element once, in an order the language
\* does not fix (here: descending, so that sorted() has work to do)
RECURSIVE IterSet(_)
IterSet(S) == IF S = {} THEN <<>> ELSE <<Max(S)>> \o IterSet(S \ {Max(S)})

\* sorted(xs): ascending, by "<" alone
RECURSIVE Insert(_, _)
Insert(x, ys) ==
    IF ys = <<>> THEN <<x>>
    ELSE IF Head(ys) < x THEN <<Head(ys)>> \o Insert(x, Tail(ys))
    ELSE <<x>> \o ys

RECURSIVE sorted(_)
sorted(xs) == IF xs = <<>> THEN <<>> ELSE Insert(Head(xs), sorted(Tail(xs)))

\* bisect_left(a, x): the leftmost position where x can be inserted
RECURSIVE Bisect(_, _, _, _)
Bisect(a, x, lo, hi) ==
    IF lo < hi
    THEN LET mid == (lo + hi) \div 2
         IN  IF a[mid + 1] < x THEN Bisect(a, x, mid + 1, hi)
             ELSE Bisect(a, x, lo, mid)
    ELSE lo

\* (variant: bisect_right, the position after any equal element)
RECURSIVE BisectRight(_, _, _, _)
BisectRight(a, x, lo, hi) ==
    IF lo < hi
    THEN LET mid == (lo + hi) \div 2
         IN  IF x < a[mid + 1] THEN BisectRight(a, x, lo, mid)
             ELSE BisectRight(a, x, mid + 1, hi)
    ELSE lo

bisect_right(a, x) == BisectRight(a, x, 0, Len(a))

bisect_left(a, x) == Bisect(a, x, 0, Len(a))

\* chain(a, b)
chain(a, b) == a \o b

\* list indexing a[i] for an integer i (0-based, negative from the end)
ListIndex(a, i) ==
    IF 0 <= i /\ i < Len(a) THEN RetInt(a[i + 1])
    ELSE IF 0 - Len(a) <= i /\ i < 0 THEN RetInt(a[Len(a) + i + 1])
    ELSE Raise("IndexError")

\* slice.indices for step 1: a bound is clamped into 0..len
Clamp(b, n, dflt) ==
    IF ~b.some THEN dflt
    ELSE IF b.v < 0 THEN (IF b.v + n < 0 THEN 0 ELSE b.v + n)
    ELSE IF b.v > n THEN n
    ELSE b.v

\* list slicing a[start:stop]: a new list
ListSlice(a, start, stop) ==
    LET lo == Clamp(start, Len(a), 0)
        hi == Clamp(stop, Len(a), Len(a))
    IN  IF lo < hi THEN SubSeq(a, lo + 1, hi) ELSE <<>>

\* repr of a list of integers
RECURSIVE Join(_)
Join(xs) ==
    IF xs = <<>> THEN ""
    ELSE IF Len(xs) = 1 THEN ToString(xs[1])
    ELSE ToString(xs[1]) \o ", " \o Join(Tail(xs))

ReprList(xs) == "[" \o Join(xs) \o "]"

(***************************************************************************)
(* class SortedSet(Sequence, Set).  A method takes the receiver's _items   *)
(* (and the other operand's) and yields its outcome.                       *)
(***************************************************************************)
\* __init__: self._items = sorted(set(items)) if items is not None else []
\* arg is NoArg, or carries the elements the iterable yields
\* (variant: self._items = list(items), neither deduplicated nor sorted)
__init__NoSort(arg) == IF arg.type = "none" THEN <<>> ELSE arg.items

\* (variant: self._items = sorted(items), duplicates kept)
__init__NoSet(arg) == IF arg.type = "none" THEN <<>> ELSE sorted(arg.items)

__init__(arg) ==
    IF arg.type = "none" THEN <<>> ELSE sorted(IterSet(set(arg.items)))

__len__(self) == Len(self)

__iter__(self) == self

\* (variant: an integer index is clamped into range, as a slice bound is)
__getitemNoRaise(self, index) ==
    IF index.type = "slice"
    THEN RetList(ListSlice(self, [some |-> index.hasi, v |-> index.i],
                              [some |-> index.hasj, v |-> index.j]))
    ELSE IF self = <<>> THEN Raise("IndexError")
    ELSE RetInt(self[Clamp(Some(index.i), Len(self) - 1, 0) + 1])

__getitem__(self, index) ==
    IF index.type = "slice"
    THEN RetList(ListSlice(self, [some |-> index.hasi, v |-> index.i],
                              [some |-> index.hasj, v |-> index.j]))
    ELSE ListIndex(self, index.i)

\* Sequence.__reversed__: self[i] for i in reversed(range(len(self)))
__reversed__(self) == [k \in 1..Len(self) |-> __getitem__(self, IntArg(Len(self) - k)).n]

__repr__(self) ==
    RetStr("SortedSet(" \o (IF self # <<>> THEN ReprList(self) ELSE "") \o ")")

_is_unique_and_sorted(self) ==
    \A k \in 0..(__len__(self) - 2) :
        __getitem__(self, IntArg(k)).n < __getitem__(self, IntArg(k + 1)).n

index(self, item) ==
    IF ~_is_unique_and_sorted(self) THEN Raise("AssertionError")
    ELSE LET i == bisect_left(self, item)
         IN  IF i # Len(self) /\ self[i + 1] = item THEN RetInt(i)
             ELSE Raise("ValueError")

__contains__(self, item) ==
    LET r == index(self, item)
    IN  IF r.kind = "int" THEN RetBool(TRUE)
        ELSE IF r.kind = "ValueError" THEN RetBool(FALSE)
        ELSE r

count(self, item) ==
    IF ~_is_unique_and_sorted(self) THEN Raise("AssertionError")
    ELSE LET r == __contains__(self, item)
         IN  IF r.kind = "bool" THEN RetInt(IF r.b THEN 1 ELSE 0) ELSE r


\* ==, != on lists against anything but a list
list__eq__(self, rhs) == IF rhs.type # "list" THEN NotImplemented ELSE RetBool(self = rhs.items)

\* __eq__ / __ne__: rhs is the other operand with its type
__eq__(self, rhs) ==
    IF rhs.type # "SortedSet" THEN NotImplemented ELSE RetBool(self = rhs.items)

\* (variant: __ne__ copied from __eq__ with the comparison left as ==)
__neSame(self, rhs) ==
    IF rhs.type # "SortedSet" THEN NotImplemented ELSE RetBool(self = rhs.items)

__ne__(self, rhs) ==
    IF rhs.type # "SortedSet" THEN NotImplemented ELSE RetBool(self # rhs.items)

(***************************************************************************)
(* Methods inherited from collections.abc.Set, which reach the list only   *)
(* through __contains__, __iter__, __len__ and the constructor.            *)
(***************************************************************************)
\* Set._from_iterable(it) == cls(it); it is a list outcome or a raised error
_from_iterable(it) ==
    IF IsRaise(it) THEN it ELSE RetNew(__init__(ListArg(it.items)))

\* (value for value in it if (value in container) == want)
RECURSIVE Select(_, _, _)
Select(it, container, want) ==
    IF it = <<>> THEN RetList(<<>>)
    ELSE LET c == __contains__(container, Head(it))
         IN  IF IsRaise(c) THEN c
             ELSE LET rest == Select(Tail(it), container, want)
                  IN  IF IsRaise(rest) THEN rest
                      ELSE IF c.b = want
                           THEN RetList(<<Head(it)>> \o rest.items)
                           ELSE rest

\* for elem in it: if elem not in container: return False; return True
RECURSIVE AllIn(_, _)
AllIn(it, container) ==
    IF it = <<>> THEN RetBool(TRUE)
    ELSE LET c == __contains__(container, Head(it))
         IN  IF IsRaise(c) THEN c
             ELSE IF ~c.b THEN RetBool(FALSE)
             ELSE AllIn(Tail(it), container)

\* (variant: only the lengths are compared)
__leLenOnly(self, other) == RetBool(__len__(self) <= __len__(other))

__le__(self, other) ==
    IF __len__(self) > __len__(other) THEN RetBool(FALSE)
    ELSE AllIn(__iter__(self), other)

__ge__(self, other) ==
    IF __len__(self) < __len__(other) THEN RetBool(FALSE)
    ELSE AllIn(__iter__(other), self)

__lt__(self, other) ==
    IF __len__(self) < __len__(other) THEN __le__(self, other) ELSE RetBool(FALSE)

__gt__(self, other) ==
    IF __len__(self) > __len__(other) THEN __ge__(self, other) ELSE RetBool(FALSE)

__and__(self, other) == _from_iterable(Select(__iter__(other), self, TRUE))

__or__(self, other) == _from_iterable(RetList(chain(__iter__(self), __iter__(other))))

\* (variant: the filter keeps the values that are in other)
__subKeep(self, other) == _from_iterable(Select(__iter__(self), other, TRUE))

__sub__(self, other) == _from_iterable(Select(__iter__(self), other, FALSE))

__xor__(self, other) ==
    LET a == __sub__(self, other)
        b == __sub__(other, self)
    IN  IF IsRaise(a) THEN a
        ELSE IF IsRaise(b) THEN b
        ELSE __or__(a.items, b.items)

\* for value in other: if value in self: return False; return True
RECURSIVE isdisjoint(_, _)
isdisjoint(self, other) ==
    IF other = <<>> THEN RetBool(TRUE)
    ELSE LET c == __contains__(self, Head(other))
         IN  IF IsRaise(c) THEN c
             ELSE IF c.b THEN RetBool(FALSE)
             ELSE isdisjoint(self, Tail(other))

(***************************************************************************)
(* The named set methods: each builds SortedSet(iterable) and applies the  *)
(* operator.  iterable is the list of elements the argument yields.        *)
(***************************************************************************)
issubset(self, iterable) == __le__(self, __init__(ListArg(iterable)))

issuperset(self, iterable) == __ge__(self, __init__(ListArg(iterable)))

intersection(self, iterable) == __and__(self, __init__(ListArg(iterable)))

union(self, iterable) == __or__(self, __init__(ListArg(iterable)))

symmetric_difference(self, iterable) == __xor__(self, __init__(ListArg(iterable)))

difference(self, iterable) == __sub__(self, __init__(ListArg(iterable)))

(***************************************************************************)
(* Methods that hand back an instance built from, or identical to, the     *)
(* receiver: they take the heap and yield the heap they leave behind       *)
(* together with their outcome.                                            *)
(***************************************************************************)
\* the operand as the method sees it: an instance with its _items, or a list
Val(h, arg) == IF arg.type = "SortedSet" THEN [arg EXCEPT !.items = h[arg.id]] ELSE arg

\* the elements an iterable yields
Elems(h, arg) == IF arg.type = "SortedSet" THEN __iter__(h[arg.id]) ELSE arg.items

\* return SortedSet(chain(self._items, rhs._items))
__add__(h, self, rhs) ==
    IF rhs.type # "SortedSet"
    THEN [heap |-> h, out |-> Raise("AttributeError")]
    ELSE [heap |-> h, out |-> RetNew(__init__(ListArg(chain(h[self], h[rhs.id]))))]

\* (variant: rhs >= 0, so that zero repetitions hand back self)
__mulZeroKeeps(h, self, rhs) ==
    IF rhs >= 0
    THEN [heap |-> h, out |-> RetRef(self)]
    ELSE [heap |-> h, out |-> RetNew(__init__(NoArg))]

\* (variant: a non-positive count empties the receiver in place)
__mulClear(h, self, rhs) ==
    IF rhs > 0
    THEN [heap |-> h, out |-> RetRef(self)]
    ELSE [heap |-> [h EXCEPT ![self] = <<>>], out |-> RetRef(self)]

\* return self if rhs > 0 else SortedSet()
__mul__(h, self, rhs) ==
    IF rhs > 0
    THEN [heap |-> h, out |-> RetRef(self)]
    ELSE [heap |-> h, out |-> RetNew(__init__(NoArg))]

\* return self * lhs
__rmul__(h, self, lhs) == __mul__(h, self, lhs)

(***************************************************************************)
(* The operators as the interpreter dispatches them.                       *)
(***************************************************************************)
\* a == b: a.__eq__(b), then the reflected b.__eq__(a), then identity
OpEq(h, self, arg) ==
    LET r == __eq__(h[self], Val(h, arg))
    IN  IF r.kind # "NotImplemented" THEN r
        ELSE IF arg.type = "list" /\ list__eq__(arg.items, ObjArg(self)).kind # "NotImplemented"
             THEN list__eq__(arg.items, ObjArg(self))
        ELSE RetBool(arg.type = "SortedSet" /\ arg.id = self)

\* a != b: a.__ne__(b), then the reflected b.__ne__(a), then non-identity
OpNe(h, self, arg) ==
    LET r == __ne__(h[self], Val(h, arg))
    IN  IF r.kind # "NotImplemented" THEN r
        ELSE IF arg.type = "list" /\ list__eq__(arg.items, ObjArg(self)).kind # "NotImplemented"
             THEN RetBool(~list__eq__(arg.items, ObjArg(self)).b)
        ELSE RetBool(~(arg.type = "SortedSet" /\ arg.id = self))

(***************************************************************************)
(* The client.                                                             *)
(***************************************************************************)
ObjArgs   == {ObjArg(o) : o \in Names}
ListArgs  == {ListArg(xs) : xs \in Lists}
Iterables == ObjArgs \cup ListArgs
InitLists == UNION {[1..n -> Values] : n \in 0..(MaxLen + 1)}
InitArgs  == {NoArg} \cup ObjArgs \cup {ListArg(xs) : xs \in InitLists}

Called(op, o, a, r) == [op |-> op, self |-> o, arg |-> a, out |-> r]

\* no call is pending: the client has consumed the last outcome
Idle == Called("idle", "", NoArg, Out("None"))

\* a call that only reads: nothing is assigned to any _items
Call(op, o, a, r) ==
    /\ ret' = Called(op, o, a, r)
    /\ UNCHANGED heap

\* a call of one of the methods that yield a heap
CallEff(op, o, a, e) ==
    /\ ret' = Called(op, o, a, e.out)
    /\ heap' = e.heap

Init ==
    /\ heap = [o \in Names |-> __init__(NoArg)]
    /\ ret = Idle

\* SortedSet() / SortedSet(items)
Construct ==
    /\ ret = Idle
    /\ \E a \in InitArgs :
           Call("SortedSet", "", a,
                RetNew(__init__(IF a.type = "none" THEN a ELSE ListArg(Elems(heap, a)))))

\* o = <the instance just returned>: the client keeps the new instance
\* under the name o and drops the one it held there
Keep ==
    /\ ret.out.kind = "new"
    /\ \E o \in Names :
           /\ heap' = [heap EXCEPT ![o] = ret.out.items]
           /\ ret' = Idle

\* the client is done with the outcome of the last call
Discard ==
    /\ ret # Idle
    /\ ret' = Idle
    /\ UNCHANGED heap

Contains ==
    /\ ret = Idle
    /\ \E o \in Names, x \in Probes :
           Call("contains", o, IntArg(x), __contains__(heap[o], x))

Index ==
    /\ ret = Idle
    /\ \E o \in Names, x \in Probes :
           Call("index", o, IntArg(x), index(heap[o], x))

Count ==
    /\ ret = Idle
    /\ \E o \in Names, x \in Probes :
           Call("count", o, IntArg(x), count(heap[o], x))

Length ==
    /\ ret = Idle
    /\ \E o \in Names :
           Call("len", o, NoArg, RetInt(__len__(heap[o])))

Iterate ==
    /\ ret = Idle
    /\ \E o \in Names :
           Call("iter", o, NoArg, RetList(__iter__(heap[o])))

Reversed ==
    /\ ret = Idle
    /\ \E o \in Names :
           Call("reversed", o, NoArg, RetList(__reversed__(heap[o])))

Repr ==
    /\ ret = Idle
    /\ \E o \in Names :
           Call("repr", o, NoArg, __repr__(heap[o]))

At ==
    /\ ret = Idle
    /\ \E o \in Names, i \in Indices :
           Call("at", o, IntArg(i), __getitem__(heap[o], IntArg(i)))

Slice ==
    /\ ret = Idle
    /\ \E o \in Names, a \in Bounds, b \in Bounds :
           Call("slice", o, SliceArg(a, b), __getitem__(heap[o], SliceArg(a, b)))

Eq ==
    /\ ret = Idle
    /\ \E o \in Names, a \in Iterables :
           Call("==", o, a, OpEq(heap, o, a))

Ne ==
    /\ ret = Idle
    /\ \E o \in Names, a \in Iterables :
           Call("!=", o, a, OpNe(heap, o, a))

Lt ==
    /\ ret = Idle
    /\ \E o \in Names, a \in ObjArgs :
           Call("<", o, a, __lt__(heap[o], heap[a.id]))

Le ==
    /\ ret = Idle
    /\ \E o \in Names, a \in ObjArgs :
           Call("<=", o, a, __le__(heap[o], heap[a.id]))

Gt ==
    /\ ret = Idle
    /\ \E o \in Names, a \in ObjArgs :
           Call(">", o, a, __gt__(heap[o], heap[a.id]))

Ge ==
    /\ ret = Idle
    /\ \E o \in Names, a \in ObjArgs :
           Call(">=", o, a, __ge__(heap[o], heap[a.id]))

And ==
    /\ ret = Idle
    /\ \E o \in Names, a \in ObjArgs :
           Call("&", o, a, __and__(heap[o], heap[a.id]))

Or ==
    /\ ret = Idle
    /\ \E o \in Names, a \in ObjArgs :
           Call("|", o, a, __or__(heap[o], heap[a.id]))

Sub ==
    /\ ret = Idle
    /\ \E o \in Names, a \in ObjArgs :
           Call("-", o, a, __sub__(heap[o], heap[a.id]))

Xor ==
    /\ ret = Idle
    /\ \E o \in Names, a \in ObjArgs :
           Call("^", o, a, __xor__(heap[o], heap[a.id]))

IsSubset ==
    /\ ret = Idle
    /\ \E o \in Names, a \in Iterables :
           Call("issubset", o, a, issubset(heap[o], Elems(heap, a)))

IsSuperset ==
    /\ ret = Idle
    /\ \E o \in Names, a \in Iterables :
           Call("issuperset", o, a, issuperset(heap[o], Elems(heap, a)))

IsDisjoint ==
    /\ ret = Idle
    /\ \E o \in Names, a \in Iterables :
           Call("isdisjoint", o, a, isdisjoint(heap[o], Elems(heap, a)))

Intersection ==
    /\ ret = Idle
    /\ \E o \in Names, a \in Iterables :
           Call("intersection", o, a, intersection(heap[o], Elems(heap, a)))

Union ==
    /\ ret = Idle
    /\ \E o \in Names, a \in Iterables :
           Call("union", o, a, union(heap[o], Elems(heap, a)))

SymmetricDifference ==
    /\ ret = Idle
    /\ \E o \in Names, a \in Iterables :
           Call("symmetric_difference", o, a, symmetric_difference(heap[o], Elems(heap, a)))

Difference ==
    /\ ret = Idle
    /\ \E o \in Names, a \in Iterables :
           Call("difference", o, a, difference(heap[o], Elems(heap, a)))

Add ==
    /\ ret = Idle
    /\ \E o \in Names, a \in Iterables :
           CallEff("+", o, a, __add__(heap, o, a))

Mul ==
    /\ ret = Idle
    /\ \E o \in Names, n \in Counts :
           CallEff("*", o, IntArg(n), __mul__(heap, o, n))

RMul ==
    /\ ret = Idle
    /\ \E o \in Names, n \in Counts :
           CallEff("r*", o, IntArg(n), __rmul__(heap, o, n))

Next ==
    \/ Construct \/ Keep \/ Discard
    \/ Contains \/ Index \/ Count
    \/ Length \/ Iterate \/ Reversed \/ Repr \/ At \/ Slice
    \/ Eq \/ Ne \/ Lt \/ Le \/ Gt \/ Ge
    \/ And \/ Or \/ Sub \/ Xor
    \/ IsSubset \/ IsSuperset \/ IsDisjoint
    \/ Intersection \/ Union \/ SymmetricDifference \/ Difference
    \/ Add \/ Mul \/ RMul

Spec == Init /\ [][Next]_vars


(***************************************************************************)
(* Properties.                                                             *)
(***************************************************************************)
StrictlyAscending(xs) == \A k \in 1..(Len(xs) - 1) : xs[k] < xs[k + 1]

\* the elements the argument of the last call yields
ArgElems == Elems(heap, ret.arg)

\* the stored sequence of the instance the last call handed back
Returned == IF ret.out.kind = "ref" THEN heap[ret.out.id] ELSE ret.out.items

\* xs with positions k and k + 1 exchanged
Swap(xs, k) == [xs EXCEPT ![k] = xs[k + 1], ![k + 1] = xs[k]]

\* xs without position k
Without(xs, k) == SubSeq(xs, 1, k - 1) \o SubSeq(xs, k + 1, Len(xs))

\* C1: every instance the client holds or is handed (by the constructor,
\* union, intersection, difference, symmetric_difference, + or *, applied
\* any number of times) stores a strictly ascending sequence, and the
\* assertion at the start of index() and count() never fails.
C1_Sortedness ==
    /\ \A o \in Names : StrictlyAscending(heap[o])
    /\ ret.out.kind \in {"new", "ref"} => StrictlyAscending(Returned)
    /\ ret.out.kind # "AssertionError"

\* C1 witness: index() has found an item in an instance the client holds
\* that stores every value, while the other instance holds something else.
C1_Witness ==
    /\ ret.op = "index"
    /\ ret.out.kind = "int"
    /\ Len(heap[ret.self]) = MaxVal
    /\ heap["s"] # heap["t"]

\* C2: SortedSet(xs) stores exactly the distinct values of xs, once each,
\* ascending; its length is the number of distinct values; exchanging two
\* neighbours of xs or dropping a repeated occurrence gives the same
\* result; SortedSet() is empty.
C2_Construction ==
    ret.op = "SortedSet" =>
        /\ ret.out.kind = "new"
        /\ ret.arg.type = "none" => ret.out.items = <<>>
        /\ ret.arg.type # "none" =>
            LET xs == ArgElems
                r  == ret.out.items
            IN  /\ StrictlyAscending(r)
                /\ set(r) = set(xs)
                /\ Len(r) = Cardinality(set(xs))
                /\ \A k \in 1..(Len(xs) - 1) :
                       __init__(ListArg(Swap(xs, k))) = r
                /\ \A k \in 1..Len(xs) :
                       (\E m \in 1..(k - 1) : xs[m] = xs[k]) =>
                           __init__(ListArg(Without(xs, k))) = r

\* C2 witness: a constructor call on an unsorted list with a repeated value
C2_Witness ==
    /\ ret.op = "SortedSet"
    /\ ret.arg.type = "list"
    /\ Len(ret.arg.items) > Cardinality(set(ret.arg.items))
    /\ ~StrictlyAscending(Without(ret.arg.items, 1))
    /\ Len(ret.out.items) > 1

\* C3: when x is stored, index(x) is the one position holding x,
\* contains(x) is true and count(x) is 1; when it is not, index(x) raises
\* ValueError while contains(x) is false and count(x) is 0.
C3_Lookup ==
    LET items == heap[ret.self]
        x     == ret.arg.i
        here  == {k \in 1..Len(items) : items[k] = x}
    IN  /\ ret.op = "index" =>
            IF x \in set(items)
            THEN /\ ret.out.kind = "int"
                 /\ here = {ret.out.n + 1}
            ELSE ret.out.kind = "ValueError"
        /\ ret.op = "contains" => ret.out = RetBool(x \in set(items))
        /\ ret.op = "count" => ret.out = RetInt(IF x \in set(items) THEN 1 ELSE 0)

\* C3 witness: index() of an absent item that lies between two stored ones
C3_Witness ==
    /\ ret.op = "index"
    /\ ret.out.kind = "ValueError"
    /\ \E a, b \in set(heap[ret.self]) : a < ret.arg.i /\ ret.arg.i < b

\* C4: union, intersection, difference and symmetric_difference with any
\* iterable hand back a new SortedSet holding exactly the elements in
\* either, in both, in the receiver only, in exactly one; |, &, - and ^ on
\* two SortedSets give what the named methods give.
C4_SetAlgebra ==
    LET S == set(heap[ret.self])
        T == set(ArgElems)
        expected ==
            CASE ret.op \in {"union", "|"} -> S \cup T
              [] ret.op \in {"intersection", "&"} -> S \cap T
              [] ret.op \in {"difference", "-"} -> S \ T
              [] ret.op \in {"symmetric_difference", "^"} -> (S \ T) \cup (T \ S)
        named ==
            CASE ret.op = "|" -> union(heap[ret.self], ArgElems)
              [] ret.op = "&" -> intersection(heap[ret.self], ArgElems)
              [] ret.op = "-" -> difference(heap[ret.self], ArgElems)
              [] ret.op = "^" -> symmetric_difference(heap[ret.self], ArgElems)
    IN  /\ ret.op \in {"union", "intersection", "difference", "symmetric_difference",
                       "|", "&", "-", "^"} =>
            /\ ret.out.kind = "new"
            /\ StrictlyAscending(ret.out.items)
            /\ set(ret.out.items) = expected
        /\ ret.op \in {"|", "&", "-", "^"} => ret.out = named

\* C4 witness: symmetric_difference with an unsorted plain list that shares
\* one element with the receiver
C4_Witness ==
    /\ ret.op = "symmetric_difference"
    /\ ret.arg.type = "list"
    /\ ~StrictlyAscending(ret.arg.items)
    /\ set(ret.arg.items) \cap set(heap[ret.self]) # {}
    /\ set(ret.arg.items) \ set(heap[ret.self]) # {}
    /\ set(heap[ret.self]) \ set(ret.arg.items) # {}

\* C5: S + t succeeds for every finite iterable t, a SortedSet or a plain
\* sequence, and hands back a SortedSet equal to S.union(t).
C5_Concatenation ==
    ret.op = "+" =>
        /\ ret.out.kind = "new"
        /\ ret.out = union(heap[ret.self], ArgElems)

\* C6: S * n == S for n > 0, S * n is the empty SortedSet for n <= 0, and
\* n * S gives what S * n gives.
C6_Repetition ==
    ret.op \in {"*", "r*"} =>
        /\ ret.out.kind \in {"new", "ref"}
        /\ ret.arg.i > 0 => __eq__(Returned, Val(heap, ObjArg(ret.self))) = RetBool(TRUE)
        /\ ret.arg.i <= 0 => /\ ret.out.kind = "new"
                             /\ __eq__(Returned, [ObjArg("") EXCEPT !.items = <<>>]) = RetBool(TRUE)

\* C6 witness: zero repetitions, from the left, of a non-empty set
C6_Witness ==
    /\ ret.op = "r*"
    /\ ret.arg.i = 0
    /\ heap[ret.self] # <<>>
    /\ ret.out.items = <<>>

\* C7: S == T iff the stored sequences agree position by position; S != T
\* is its negation; S == S; (S == T) iff (T == S); against a plain list
\* holding whatever elements, == is false and != is true, and neither
\* raises.
C7_Equality ==
    LET a == heap[ret.self]
        b == ArgElems
        same == Len(a) = Len(b) /\ \A k \in 1..Len(a) : a[k] = b[k]
    IN  /\ ret.op \in {"==", "!="} => ret.out.kind = "bool"
        /\ (ret.op = "==" /\ ret.arg.type = "SortedSet") =>
            /\ ret.out.b = same
            /\ ret.arg.id = ret.self => ret.out.b
            /\ ret.out = OpEq(heap, ret.arg.id, ObjArg(ret.self))
        /\ (ret.op = "!=" /\ ret.arg.type = "SortedSet") =>
            /\ ret.out.b = ~same
            /\ ret.out.b = ~OpEq(heap, ret.self, ret.arg).b
        /\ (ret.op = "==" /\ ret.arg.type = "list") => ~ret.out.b
        /\ (ret.op = "!=" /\ ret.arg.type = "list") => ret.out.b

\* C7 witness: != between two distinct instances that hold the same elements
C7_Witness ==
    /\ ret.op = "!="
    /\ ret.arg.type = "SortedSet"
    /\ ret.arg.id # ret.self
    /\ heap[ret.self] = heap[ret.arg.id]
    /\ Len(heap[ret.self]) > 1
    /\ ~ret.out.b

\* C8: issubset(t) iff every element of S occurs in t, issuperset(t) iff
\* every element of t occurs in S; S < T iff subset and S != T, S > T iff
\* superset and S != T; isdisjoint(t) iff S.intersection(t) is empty.
C8_Relations ==
    LET S == set(heap[ret.self])
        T == set(ArgElems)
        differ == OpNe(heap, ret.self, ret.arg).b
    IN  /\ ret.op = "issubset" => ret.out = RetBool(S \subseteq T)
        /\ ret.op = "issuperset" => ret.out = RetBool(T \subseteq S)
        /\ ret.op = "<=" => ret.out = RetBool(S \subseteq T)
        /\ ret.op = ">=" => ret.out = RetBool(T \subseteq S)
        /\ ret.op = "<" => ret.out = RetBool(S \subseteq T /\ differ)
        /\ ret.op = ">" => ret.out = RetBool(T \subseteq S /\ differ)
        /\ ret.op = "isdisjoint" =>
               ret.out = RetBool(intersection(heap[ret.self], ArgElems).items = <<>>)

\* C8 witness: issubset against a plain list that repeats an element and
\* holds exactly the receiver's elements
C8_Witness ==
    /\ ret.op = "issubset"
    /\ ret.arg.type = "list"
    /\ set(ret.arg.items) = set(heap[ret.self])
    /\ heap[ret.self] # <<>>
    /\ ret.out.b

\* C9: at(i) is items[i] for 0 <= i < n, items[n + i] for -n <= i < 0 and
\* raises IndexError exactly when i >= n or i < -n; slice(start, stop)
\* never raises: it is the plain contiguous run of items from start
\* (default 0) up to stop (default n), bounds beyond n clamped to n, empty
\* when start is at or beyond n.
C9_Positional ==
    LET items == heap[ret.self]
        n     == Len(items)
        i     == ret.arg.i
        j     == ret.arg.j
        Min(a, b) == IF a < b THEN a ELSE b
    IN  /\ ret.op = "at" =>
            /\ (0 <= i /\ i < n) => ret.out = RetInt(items[i + 1])
            /\ (0 - n <= i /\ i < 0) => ret.out = RetInt(items[n + i + 1])
            /\ (ret.out.kind = "IndexError") <=> (i >= n \/ i < 0 - n)
        /\ ret.op = "slice" =>
            /\ ret.out.kind = "list"
            /\ \E lo \in 0..n, hi \in 0..n :
                   ret.out.items = [k \in 1..(hi - lo) |-> items[lo + k]]
            /\ ((~ret.arg.hasi \/ i >= 0) /\ (~ret.arg.hasj \/ j >= 0)) =>
                   LET lo == IF ret.arg.hasi THEN Min(i, n) ELSE 0
                       hi == IF ret.arg.hasj THEN Min(j, n) ELSE n
                   IN  ret.out.items = [k \in 1..(hi - lo) |-> items[lo + k]]
            /\ (ret.arg.hasi /\ i >= n) => ret.out.items = <<>>

\* C9 witness: at(n) on a non-empty set of n elements raises IndexError
C9_Witness ==
    /\ ret.op = "at"
    /\ heap[ret.self] # <<>>
    /\ ret.arg.i = Len(heap[ret.self])
    /\ ret.out.kind = "IndexError"

\* C10: no public operation changes the stored sequence of the receiver or
\* of a SortedSet passed as the other operand, whether it succeeds or
\* raises; only the client's keeping of a new instance under a name changes
\* what the name holds.
C10_Immutability == [][ret = Idle => heap' = heap]_vars

\* C10 witness: a repetition with a positive count has handed back the
\* receiver itself, a non-empty set
C10_Witness ==
    /\ ret.op = "*"
    /\ ret.arg.i > 0
    /\ ret.out = RetRef(ret.self)
    /\ heap[ret.self] # <<>>

====
